---------------------------- MODULE Spec2Model ----------------------------
(***************************************************************************)
(* Model of kimep_classrooms.py: the smart time-interval parser, the       *)
(* weekday-code decoder, the row-wise preprocessing of an uploaded         *)
(* schedule table and the availability query of the dashboard.             *)
(*                                                                         *)
(* Text is a sequence of one-character strings ("9:00" is                  *)
(* <<"9", ":", "0", "0">>).  A missing cell (pandas NaN, a float) is the   *)
(* one-element sequence NaN.  Python's None is the empty sequence and a    *)
(* present number n is <<n>>.  A Python str built from fragments (an       *)
(* f-string) is the sequence of its fragments, "" being <<>>.              *)
(***************************************************************************)
EXTENDS Integers, Sequences, FiniteSets, TLC

VARIABLES
    pc,            \* position of the run: which call is pending / returned
    interval,      \* argument of parse_interval_smart
    parsed,        \* value returned by parse_interval_smart
    code,          \* argument of decode_days
    days,          \* value returned by decode_days
    raw_df,        \* the uploaded table (smart_load), or None
    selected_wd,   \* st.selectbox("Weekday:")
    selected_hr,   \* st.slider("Hour:")
    df_valid,      \* preprocess_data: rows with ErrorMessage == ""
    df_errors,     \* preprocess_data: rows with ErrorMessage != ""
    available,     \* get_availability: list of free halls
    occupied,      \* get_availability: occupying rows
    astype_keeps_na  \* the installed pandas: does astype(str) keep a missing
                     \* cell missing (3.x) or write it as "nan" (1.x, 2.x)

vars == <<pc, interval, parsed, code, days, raw_df, selected_wd, selected_hr,
          df_valid, df_errors, available, occupied, astype_keeps_na>>

---------------------------------------------------------------------------
(* Python values *)

None == <<>>
Some(n) == <<n>>
NaN == <<"<NaN>">>
isinstance_str(x) == x # NaN

Range(s) == {s[i] : i \in 1..Len(s)}

\* Op(v) with v evaluated once (a local variable of the program)
With(v, Op(_)) == CHOOSE r \in {Op(x) : x \in {v}} : TRUE

\* the characters U+2013 and U+2014, each one character of a text
EnDash == "<en dash>"
EmDash == "<em dash>"

---------------------------------------------------------------------------
(* str methods used by the program *)

\* s.replace(old, new) for a one-character old; new is a text (maybe empty)
RECURSIVE replace(_, _, _)
replace(s, old, new) ==
    IF s = <<>> THEN <<>>
    ELSE (IF Head(s) = old THEN new ELSE <<Head(s)>>) \o replace(Tail(s), old, new)

LowerCase == <<"a","b","c","d","e","f","g","h","i","j","k","l","m",
               "n","o","p","q","r","s","t","u","v","w","x","y","z">>
UpperCase == <<"A","B","C","D","E","F","G","H","I","J","K","L","M",
               "N","O","P","Q","R","S","T","U","V","W","X","Y","Z">>

upper_char(c) ==
    IF \E i \in 1..26 : LowerCase[i] = c
    THEN UpperCase[CHOOSE i \in 1..26 : LowerCase[i] = c]
    ELSE c

\* s.upper()
upper(s) == [i \in 1..Len(s) |-> upper_char(s[i])]

\* x in s, for texts x and s
contains(s, x) ==
    \E i \in 1..(Len(s) - Len(x) + 1) : SubSeq(s, i, i + Len(x) - 1) = x

\* position of the first occurrence of character c in s, 0 when absent
find(s, c) ==
    IF \E i \in 1..Len(s) : s[i] = c
    THEN CHOOSE i \in 1..Len(s) : s[i] = c /\ \A j \in 1..(i - 1) : s[j] # c
    ELSE 0

\* s.split(sep): the list of all pieces between occurrences of character sep
RECURSIVE split(_, _)
split(s, sep) ==
    LET p == find(s, sep) IN
    IF p = 0 THEN <<s>>
    ELSE <<SubSeq(s, 1, p - 1)>> \o split(SubSeq(s, p + 1, Len(s)), sep)

\* s.split(sep, 1): at most one split, at the first occurrence
split1(s, sep) ==
    LET p == find(s, sep) IN
    IF p = 0 THEN <<s>>
    ELSE <<SubSeq(s, 1, p - 1), SubSeq(s, p + 1, Len(s))>>

\* s.strip(): leading and trailing blanks removed
RECURSIVE lstrip(_)
lstrip(s) == IF s # <<>> /\ Head(s) = " " THEN lstrip(Tail(s)) ELSE s
RECURSIVE rstrip(_)
rstrip(s) ==
    IF s # <<>> /\ s[Len(s)] = " " THEN rstrip(SubSeq(s, 1, Len(s) - 1)) ELSE s
strip(s) == rstrip(lstrip(s))

DigitChars == <<"0","1","2","3","4","5","6","7","8","9">>
IsDigit(c) == \E i \in 1..10 : DigitChars[i] = c
DigitVal(c) == (CHOOSE i \in 1..10 : DigitChars[i] = c) - 1

RECURSIVE DigitsVal(_)
DigitsVal(s) ==
    IF s = <<>> THEN 0 ELSE DigitsVal(SubSeq(s, 1, Len(s) - 1)) * 10 + DigitVal(s[Len(s)])

\* int(s): an optional sign and one or more decimal digits; None stands for
\* the ValueError raised on anything else
int(s) ==
    LET signed == s # <<>> /\ Head(s) \in {"+", "-"}
        body   == IF signed THEN Tail(s) ELSE s
    IN  IF body = <<>> \/ \E i \in 1..Len(body) : ~IsDigit(body[i])
        THEN None
        ELSE Some(IF signed /\ Head(s) = "-" THEN 0 - DigitsVal(body) ELSE DigitsVal(body))

\* str(n) for an integer n
RECURSIVE NatStr(_)
NatStr(n) == IF n < 10 THEN <<DigitChars[n + 1]>> ELSE NatStr(n \div 10) \o <<DigitChars[(n % 10) + 1]>>
str(n) == IF n < 0 THEN <<"-">> \o NatStr(0 - n) ELSE NatStr(n)

---------------------------------------------------------------------------
(* SMART TIME PARSER *)

\* to_minutes(t): None stands for the exception raised by the unpacking of a
\* split that has not exactly two pieces, or by int()
to_minutes(t) ==
    LET hm == split(t, ":") IN
    IF Len(hm) # 2 THEN None
    ELSE LET h == int(hm[1])
             m == int(hm[2])
         IN  IF h = None \/ m = None THEN None ELSE Some(h[1] * 60 + m[1])

\* first wraparound correction: if end <= start: end += 720
FirstFix_Strict(start, end) == IF end < start THEN end + 720 ELSE end
FirstFix(start, end) == IF end <= start THEN end + 720 ELSE end

\* second wraparound correction: if end <= start: end += 1440
SecondFix(start, end) == IF end <= start THEN end + 1440 ELSE end

\* the duration cap: if duration > 300
TooLong_Day(duration) == duration > 1440
TooLong(duration) == duration > 300

\* the f-string f"Duration too long ({duration} min)"
DurationMessage(duration) == <<"Duration too long (", duration, " min)">>

\* the statements after the try block, for parsed start and end
fix_and_check(start, end0) ==
    LET end1     == FirstFix(start, end0)
        end      == SecondFix(start, end1)
        fixed    == (end0 <= start) \/ (end1 <= start)
        duration == end - start
    IN  IF TooLong(duration)
        THEN <<Some(start), Some(end), FALSE, DurationMessage(duration)>>
        ELSE <<Some(start), Some(end), fixed, <<>> >>

\* the ONLINE / TBA test, on the text with its blanks removed
IsNonTime(s) ==
    \E x \in {<<"O","N","L","I","N","E">>, <<"T","B","A">>} : contains(upper(s), x)

parse_interval_smart(x) ==
    IF ~isinstance_str(x) THEN <<None, None, FALSE, <<"Non-string interval">> >>
    ELSE LET s == replace(x, " ", <<>>) IN
         IF find(s, "-") = 0 THEN <<None, None, FALSE, <<"Missing dash">> >>
         ELSE IF IsNonTime(s) THEN <<None, None, FALSE, <<"Non-time entry">> >>
         ELSE LET se    == split1(s, "-")
                  start == to_minutes(se[1])
                  end   == to_minutes(se[2])
              IN  IF start = None \/ end = None
                  THEN <<None, None, FALSE, <<"Bad time format">> >>
                  ELSE fix_and_check(start[1], end[1])


---------------------------------------------------------------------------
(* Interval texts given to the parser *)

Sq(S, n) == [1..n -> S]

ClockHours == 0..23
ClockMinutes == 0..59
SampleMinutes == {0, 30, 59}
\* times whose hour or minute is outside the clock range
OddTimes == {<<25, 99>>, <<31, 0>>, <<50, 0>>}
Times == (ClockHours \X SampleMinutes) \cup OddTimes

TwoDigits(m) == IF m < 10 THEN <<"0">> \o str(m) ELSE str(m)
\* the text "H:MM" of a time
TimeText(t) == str(t[1]) \o <<":">> \o TwoDigits(t[2])

\* what stands between the two times: a hyphen, a spaced hyphen, an en dash
\* (which only preprocess_data replaces), a hyphen and a minus sign
Separators == {<<"-">>, <<" ", "-", " ">>, <<EnDash>>, <<"-", "-">>}

TimePairTexts ==
    {TimeText(a) \o sep \o TimeText(b) : a \in Times, b \in Times, sep \in Separators}

Words == {<<>>, <<"O","N","L","I","N","E">>, <<"o","n","l","i","n","e">>,
          <<"O","n"," ","L","i","n","e">>, <<"T","B","A">>, <<"t","b","a">>, <<"x">>}
Bodies == {<<>>, <<"-">>, <<"9",":","0","0">>, <<"9",":","0","0","-","1","0",":","0","0">>,
           <<"9",":","0","0","-","8",":","0","0">>}
WordTexts == {a \o b \o c : a \in Words, b \in Bodies, c \in Words}

MalformedTexts ==
    { <<"9",":","0","0","-","1","0">>,
      <<"9","-","1","0",":","0","0">>,
      <<"9",":","0","0",":","0","0","-","1","0",":","0","0">>,
      <<"9",":","0","0","-","1","0",":","0","0","-">>,
      <<"9",".","0","0","-","1","0",".","0","0">>,
      <<"0","9",":","0","0","-","+","1","0",":","0","0">>,
      <<"9",":","-","1","0",":","0","0">>,
      <<":","-",":">>,
      <<"-">>,
      NaN }

IntervalTexts == TimePairTexts \cup WordTexts \cup MalformedTexts

---------------------------------------------------------------------------
(* Variables a specification does not use keep these values *)

IdleParse == interval = <<>> /\ parsed = <<>>
IdleDays == code = <<>> /\ days = <<>>
IdleApp ==
    /\ astype_keeps_na = FALSE
    /\ raw_df = None /\ selected_wd = "Mon" /\ selected_hr = 9
    /\ df_valid = <<>> /\ df_errors = <<>> /\ available = <<>> /\ occupied = <<>>

appVars == <<raw_df, selected_wd, selected_hr, df_valid, df_errors, available, occupied,
             astype_keeps_na>>

---------------------------------------------------------------------------
(* The parser applied to one interval text *)

InitParse ==
    /\ pc = "parse"
    /\ interval \in IntervalTexts
    /\ parsed = <<>>
    /\ IdleDays /\ IdleApp

ParseInterval ==
    /\ pc = "parse"
    /\ parsed' = parse_interval_smart(interval)
    /\ pc' = "parsed"
    /\ UNCHANGED <<interval, code, days>>
    /\ UNCHANGED appVars

NextParse == ParseInterval

SpecParse == InitParse /\ [][NextParse]_vars

\* the two sides of the text as the parser cuts them
Sides(x) == split1(replace(x, " ", <<>>), "-")
BothSidesParse(x) ==
    /\ isinstance_str(x)
    /\ Len(Sides(x)) = 2
    /\ to_minutes(Sides(x)[1]) # None
    /\ to_minutes(Sides(x)[2]) # None
RawStart(x) == to_minutes(Sides(x)[1])[1]
RawEnd(x) == to_minutes(Sides(x)[2])[1]

\* hour and minute of both sides are clock values
IsClockTime(t) ==
    LET hm == split(t, ":") IN int(hm[1])[1] \in ClockHours /\ int(hm[2])[1] \in ClockMinutes
ClockRange(x) ==
    BothSidesParse(x) /\ IsClockTime(Sides(x)[1]) /\ IsClockTime(Sides(x)[2])

Accepted == pc = "parsed" /\ parsed[4] = <<>>

\* C1: whenever the parser accepts (empty rejection reason), the returned
\* pair has 0 <= start_minute, end_minute > start_minute and
\* end_minute - start_minute <= 300.
C1_AcceptedIntervalBounds ==
    Accepted =>
        /\ 0 <= parsed[1][1]
        /\ parsed[2][1] > parsed[1][1]
        /\ parsed[2][1] - parsed[1][1] <= 300

\* C2: every text that contains ONLINE or TBA, in any letter case and at any
\* position, is rejected with "Non-time entry", with or without a hyphen.
C2_KeywordAlwaysNonTime ==
    (pc = "parsed" /\ isinstance_str(interval) /\
       \E w \in {<<"O","N","L","I","N","E">>, <<"T","B","A">>} : contains(upper(interval), w))
    => parsed[4] = <<"Non-time entry">>

\* C9: when both sides parse as HH:MM the end is moved by 0 (end > start),
\* by 720 (end <= start < end + 720) or by 2160 (end + 720 <= start) and by
\* nothing else, the start is returned unchanged, an accepted outcome is
\* marked corrected iff the raw end was <= the raw start, and the duration
\* compared with 300 and reported in the rejection reason is the corrected
\* end minus the start.
C9_WraparoundCorrection ==
    (pc = "parsed" /\ BothSidesParse(interval)) =>
        LET s   == RawStart(interval)
            e   == RawEnd(interval)
            adj == IF e > s THEN 0 ELSE IF e + 720 > s THEN 720 ELSE 2160
            d   == e + adj - s
        IN  /\ parsed[1] = <<s>>
            /\ parsed[2] = <<e + adj>>
            /\ (d <= 300) <=> (parsed[4] = <<>>)
            /\ (d > 300) <=> (parsed[4] = <<"Duration too long (", d, " min)">>)
            /\ (parsed[4] = <<>>) => (parsed[3] = (e <= s))
            /\ (interval = <<"9",":","0","0","-","8",":","0","0">>) =>
                   parsed = << <<540>>, <<1200>>, FALSE, <<"Duration too long (", 660, " min)">> >>

\* an accepted interval whose end was moved by both corrections
C9_Witness ==
    /\ Accepted
    /\ BothSidesParse(interval)
    /\ parsed[2][1] - RawEnd(interval) = 2160
    /\ parsed[3] = TRUE

\* C10: for clock-range input (hour 0..23, minute 0..59 on both sides) an
\* input on which the +1440 correction fires is rejected as "Duration too
\* long"; an accepted interval was moved by 0 or 720 only and ends at minute
\* 1739 at the latest; a class of at most five hours that runs past midnight
\* (its end on the next day) is rejected.
C10_ClockRangeNeverCrossesMidnight ==
    (pc = "parsed" /\ ClockRange(interval)) =>
        LET moved == parsed[2][1] - RawEnd(interval) IN
        /\ RawStart(interval) \in 0..1439 /\ RawEnd(interval) \in 0..1439
        /\ (RawEnd(interval) + 720 <= RawStart(interval)) =>
               /\ moved = 2160
               /\ parsed[4] = <<"Duration too long (", parsed[2][1] - parsed[1][1], " min)">>
        /\ (parsed[4] = <<>>) => (moved \in {0, 720} /\ parsed[2][1] <= 1739)
        /\ (RawEnd(interval) < RawStart(interval)
              /\ RawEnd(interval) + 1440 - RawStart(interval) <= 300) => (parsed[4] # <<>>)

\* a clock-range input on which the +1440 correction fired
C10_Witness ==
    /\ pc = "parsed"
    /\ ClockRange(interval)
    /\ parsed[2][1] - RawEnd(interval) = 2160

\* the latest accepted end for clock-range input is reached
C10_LatestEndReached ==
    Accepted /\ ClockRange(interval) /\ parsed[2][1] = 1739

---------------------------------------------------------------------------
(* SMART DAY DECODER *)

DAY_TOKEN_KEYS == {<<"M">>, <<"T">>, <<"W">>, <<"T","h">>, <<"F">>, <<"S","t">>, <<"S","n">>}

DAY_TOKEN_MAP ==
    [t \in DAY_TOKEN_KEYS |->
        CASE t = <<"M">> -> "Mon"
          [] t = <<"T">> -> "Tue"
          [] t = <<"W">> -> "Wed"
          [] t = <<"T","h">> -> "Thu"
          [] t = <<"F">> -> "Fri"
          [] t = <<"S","t">> -> "Sat"
          [] t = <<"S","n">> -> "Sun"]

\* the two-character tokens of the scan: ("Th", "St", "Sn")
TwoCharTokens_NoSn == {<<"T","h">>, <<"S","t">>}
TwoCharTokens == {<<"T","h">>, <<"S","t">>, <<"S","n">>}

\* the while loop of decode_days from index i (1-based): the token list
RECURSIVE tokenize(_, _)
tokenize(c, i) ==
    IF ~(i <= Len(c)) THEN <<>>
    ELSE IF i + 1 <= Len(c) /\ SubSeq(c, i, i + 1) \in TwoCharTokens
         THEN <<SubSeq(c, i, i + 1)>> \o tokenize(c, i + 2)
         ELSE <<SubSeq(c, i, i)>> \o tokenize(c, i + 1)

\* list(dict.fromkeys(l)): duplicates removed, first occurrences kept in order
RECURSIVE fromkeys(_)
fromkeys(l) ==
    IF l = <<>> THEN <<>>
    ELSE LET init == fromkeys(SubSeq(l, 1, Len(l) - 1))
             last == l[Len(l)]
         IN  IF last \in Range(init) THEN init ELSE Append(init, last)

decode_days(c) ==
    IF ~isinstance_str(c) THEN <<>>
    ELSE LET tokens == tokenize(strip(c), 1)
             known  == SelectSeq(tokens, LAMBDA t : t \in DOMAIN DAY_TOKEN_MAP)
             ds     == [k \in 1..Len(known) |-> DAY_TOKEN_MAP[known[k]]]
         IN  fromkeys(ds)

---------------------------------------------------------------------------
(* The decoder applied to one weekday code *)

MaxCodeLen == 4
DayChars == {"M", "T", "W", "F", "S", "h", "t", "n", " "}
ExampleCodes == {<<"M","T","T","h","F">>, <<"S","t","S","n">>, <<"M","W","M">>, <<>>, NaN}
DayCodes == UNION {Sq(DayChars, n) : n \in 0..MaxCodeLen} \cup ExampleCodes

InitDays ==
    /\ pc = "decode"
    /\ code \in DayCodes
    /\ days = <<>>
    /\ IdleParse /\ IdleApp

DecodeDays ==
    /\ pc = "decode"
    /\ days' = decode_days(code)
    /\ pc' = "decoded"
    /\ UNCHANGED <<interval, parsed, code>>
    /\ UNCHANGED appVars

NextDays == DecodeDays

SpecDays == InitDays /\ [][NextDays]_vars

\* the decoder as the specification words it: one pass over the text that
\* consumes "Th", "St" or "Sn" as one token and any other character alone,
\* and appends the weekday of a token that has one unless it is already out
RefDay(a, b) ==
    CASE a = "T" /\ b = "h" -> <<2, "Thu">>
      [] a = "S" /\ b = "t" -> <<2, "Sat">>
      [] a = "S" /\ b = "n" -> <<2, "Sun">>
      [] OTHER -> CASE a = "M" -> <<1, "Mon">>
                    [] a = "T" -> <<1, "Tue">>
                    [] a = "W" -> <<1, "Wed">>
                    [] a = "F" -> <<1, "Fri">>
                    [] OTHER -> <<1, "">>
RECURSIVE RefDecode(_, _)
RefDecode(rest, out) ==
    IF rest = <<>> THEN out
    ELSE LET t == RefDay(rest[1], IF Len(rest) >= 2 THEN rest[2] ELSE "")
         IN  RefDecode(SubSeq(rest, t[1] + 1, Len(rest)),
                       IF t[2] = "" \/ t[2] \in Range(out) THEN out ELSE Append(out, t[2]))

\* C6: decode_days equals the reference decoder on every weekday code:
\* "Th", "St", "Sn" are consumed as one token, every other character alone;
\* M, T, W, Th, F, St, Sn map to Mon..Sun and other tokens are discarded; each
\* weekday appears once, in first-occurrence order; a non-text code gives [].
C6_DecodeDaysMatchesReference ==
    pc = "decoded" =>
        /\ days = (IF code = NaN THEN <<>> ELSE RefDecode(code, <<>>))
        /\ (code = <<"M","T","T","h","F">>) => (days = <<"Mon", "Tue", "Thu", "Fri">>)
        /\ (code = <<"S","t","S","n">>) => (days = <<"Sat", "Sun">>)
        /\ (code = <<"M","W","M">>) => (days = <<"Mon", "Wed">>)
        /\ (code \in {<<>>, NaN}) => (days = <<>>)

\* a code with a two-character token that repeats has been decoded to one
\* weekday
C6_Witness ==
    /\ pc = "decoded"
    /\ code = <<"S","n","S","n">>
    /\ days = <<"Sun">>

---------------------------------------------------------------------------
(* PREPROCESS DATA *)

\* Series.astype(str): a missing cell becomes the text "nan", or stays
\* missing, as the installed pandas has it.  The .str methods that follow
\* leave a missing cell missing (replace and strip do not touch NaN).
astype_str(v) == IF v = NaN /\ ~astype_keeps_na THEN <<"n","a","n">> ELSE v

\* Series.fillna(value): only a cell that is still missing is filled
fillna(v, value) == IF v = NaN THEN value ELSE v

UNKNOWN == <<"U","N","K","N","O","W","N">>

RequiredColumns == {"Days", "Class_Times", "Hall"}

\* df["Hall"].astype(str).fillna("UNKNOWN")
HallLabel(v) == fillna(astype_str(v), UNKNOWN)

\* the chain of replacements on Class_Times
TimesText(v) ==
    replace(replace(replace(replace(astype_str(v), EnDash, <<"-">>), EmDash, <<"-">>),
                    ".", <<":">>), " ", <<>>)

\* df["End_Min"] - df["Start_Min"]: missing when either is missing
Minus(b, a) == IF a = None \/ b = None THEN None ELSE Some(b[1] - a[1])

\* (df["Start_Min"] // 60).astype("Int64")
FloorDiv60(a) == IF a = None THEN None ELSE Some(a[1] \div 60)

\* the row of df after all columns are added, for the input row at index i
NormalizedRow(row, i) ==
    With(strip(astype_str(row.Days)), LAMBDA Days :
    With(TimesText(row.Class_Times), LAMBDA Class_Times :
    With(parse_interval_smart(Class_Times), LAMBDA p :
        [ index        |-> i,
          Days         |-> Days,
          Hall         |-> HallLabel(row.Hall),
          Class_Times  |-> Class_Times,
          Start_Min    |-> p[1],
          End_Min      |-> p[2],
          AutoFixed    |-> p[3],
          ErrorMessage |-> p[4],
          Duration     |-> Minus(p[2], p[1]),
          Start_Hour   |-> FloorDiv60(p[1]),
          Day_List     |-> decode_days(Days) ])))

\* the masks df["ErrorMessage"] == "" and df["ErrorMessage"] != ""
IsErrorRow_NotFixed(r) == r.AutoFixed = FALSE
IsValidRow(r) == r.ErrorMessage = <<>>
IsErrorRow(r) == r.ErrorMessage # <<>>

\* preprocess_data(df): the pair (df_valid, df_errors)
preprocess_data(df) ==
    IF ~(RequiredColumns \subseteq df.columns) THEN <<<<>>, <<>>>>
    ELSE With([i \in 1..Len(df.rows) |-> NormalizedRow(df.rows[i], i)], LAMBDA rows :
             <<SelectSeq(rows, IsValidRow), SelectSeq(rows, IsErrorRow)>>)

---------------------------------------------------------------------------
(* AVAILABILITY CHECKER *)

\* weekday in lst
InDay(r, weekday) == weekday \in Range(r.Day_List)

\* (Start_Min <= minute) & (minute < End_Min)
InInterval_Closed(r, minute) == r.Start_Min[1] <= minute /\ minute <= r.End_Min[1]
InInterval(r, minute) == r.Start_Min[1] <= minute /\ minute < r.End_Min[1]

\* Series.unique().tolist() of the Hall column
HallsOf(rows) == fromkeys([i \in 1..Len(rows) |-> rows[i].Hall])

\* h not in occupied_halls
IsFree_Inverted(h, occupied_halls) == h \in Range(occupied_halls)
IsFree(h, occupied_halls) == h \notin Range(occupied_halls)

\* get_availability(df_valid, weekday, hour): the pair (available, occupied)
get_availability(valid, weekday, hour) ==
    LET minute == hour * 60
        df_day == SelectSeq(valid, LAMBDA r : InDay(r, weekday))
    IN  With(SelectSeq(df_day, LAMBDA r : InInterval(r, minute)), LAMBDA occ :
        With(HallsOf(occ), LAMBDA occupied_halls :
            LET all_halls == HallsOf(valid)
            IN  <<SelectSeq(all_halls, LAMBDA h : IsFree(h, occupied_halls)), occ>>))

---------------------------------------------------------------------------
(* APP: one run of main() per upload or widget change *)

MaxRows == 2

WEEKDAYS == {"Mon", "Tue", "Wed", "Thu", "Fri", "Sat", "Sun"}
\* the weekdays of the selectbox and the hours of the slider (7..21) that the
\* model selects
QueryWeekdays == WEEKDAYS \cap {"Mon", "Tue"}
QueryHours == {9, 10}

DaysCells == {<<"M","T","h"," ">>, NaN}
TimesCells ==
    { <<"9",".","0","0"," ",EnDash," ","1","0",".","0","0">>,
      <<"1","0",":","0","0","-","1",":","0","0">>,
      <<"9",":","0","0","-","8",":","0","0">>,
      NaN }
HallCells == {<<"A">>, NaN}
RawRows == [Days : DaysCells, Class_Times : TimesCells, Hall : HallCells]

\* uploaded tables: the three required columns and one to MaxRows rows, or a
\* table that lacks the Hall column
Tables ==
    {[columns |-> RequiredColumns, rows |-> rs] :
        rs \in UNION {Sq(RawRows, n) : n \in 1..MaxRows}}
    \cup
    {[columns |-> {"Days", "Class_Times"}, rows |-> <<r>>] :
        r \in [Days : DaysCells, Class_Times : TimesCells, Hall : {NaN}]}

Init ==
    /\ pc = "waiting"
    /\ astype_keeps_na \in BOOLEAN
    /\ raw_df = None /\ selected_wd = "Mon" /\ selected_hr = 9
    /\ df_valid = <<>> /\ df_errors = <<>> /\ available = <<>> /\ occupied = <<>>
    /\ IdleParse /\ IdleDays

\* main() from smart_load on, with file f uploaded and the widgets at wd, hr.
\* Without the required columns df_valid["Hall"] raises, and with no valid row
\* df_valid["Start_Hour"].mode()[0] raises: the run ends before the
\* availability tab.
Run(f, wd, hr) ==
    /\ raw_df' = Some(f)
    /\ selected_wd' = wd
    /\ selected_hr' = hr
    /\ \E pp \in {preprocess_data(f)} : df_valid' = pp[1] /\ df_errors' = pp[2]
    /\ IF df_valid' = <<>>
       THEN /\ pc' = "crashed"
            /\ available' = <<>>
            /\ occupied' = <<>>
       ELSE /\ pc' = "rendered"
            /\ \E q \in {get_availability(df_valid', wd, hr)} :
                   available' = q[1] /\ occupied' = q[2]
    /\ UNCHANGED <<interval, parsed, code, days, astype_keeps_na>>

\* the user uploads a file in the sidebar
Upload ==
    /\ pc = "waiting"
    /\ \E f \in Tables : Run(f, selected_wd, selected_hr)

\* the user picks a weekday in the selectbox of the availability tab
SelectWeekday ==
    /\ pc = "rendered"
    /\ \E wd \in QueryWeekdays : wd # selected_wd /\ Run(raw_df[1], wd, selected_hr)

\* the user moves the hour slider of the availability tab
SelectHour ==
    /\ pc = "rendered"
    /\ \E hr \in QueryHours : hr # selected_hr /\ Run(raw_df[1], selected_wd, hr)

\* the user removes the file: smart_load returns None and main() stops; the
\* widgets of the availability tab are not drawn and start again from their
\* defaults ("Mon", 9)
RemoveFile ==
    /\ pc \in {"rendered", "crashed"}
    /\ pc' = "waiting"
    /\ raw_df' = None
    /\ selected_wd' = "Mon"
    /\ selected_hr' = 9
    /\ df_valid' = <<>>
    /\ df_errors' = <<>>
    /\ available' = <<>>
    /\ occupied' = <<>>
    /\ UNCHANGED <<interval, parsed, code, days, astype_keeps_na>>

Next == Upload \/ SelectWeekday \/ SelectHour \/ RemoveFile

Spec == Init /\ [][Next]_vars

\* a run of main() has ended, at the end of the script or at an exception
Done == pc \in {"rendered", "crashed"}
HasRequiredColumns == RequiredColumns \subseteq raw_df[1].columns

\* the positions of the row with input index i in a partition
Places(part, i) == {j \in 1..Len(part) : part[j].index = i}
Increasing(part) ==
    \A j, k \in 1..Len(part) : j < k => part[j].index < part[k].index

\* C3: for a table with the columns Days, Class_Times and Hall every input
\* row is in exactly one of df_valid and df_errors, once; it is in df_valid
\* iff its rejection reason is empty; the two lengths add up to the input's;
\* and each partition keeps the input order.
C3_RowsPartitioned ==
    (Done /\ HasRequiredColumns) =>
        LET input == raw_df[1].rows IN
        /\ Len(df_valid) + Len(df_errors) = Len(input)
        /\ \A i \in 1..Len(input) :
              /\ Cardinality(Places(df_valid, i)) + Cardinality(Places(df_errors, i)) = 1
              /\ (Places(df_valid, i) # {}) <=>
                     (parse_interval_smart(TimesText(input[i].Class_Times))[4] = <<>>)
        /\ \A j \in 1..Len(df_valid) :
              df_valid[j].index \in 1..Len(input) /\ df_valid[j].ErrorMessage = <<>>
        /\ \A j \in 1..Len(df_errors) :
              df_errors[j].index \in 1..Len(input) /\ df_errors[j].ErrorMessage # <<>>
        /\ Increasing(df_valid) /\ Increasing(df_errors)

\* a table whose first row is rejected and whose second row is valid
C3_Witness ==
    /\ Done /\ HasRequiredColumns
    /\ Len(df_valid) = 1 /\ Len(df_errors) = 1
    /\ df_errors[1].index = 1 /\ df_valid[1].index = 2

\* C4: a row of df_valid is in occupied iff the selected weekday is in its
\* weekday list and start_minute <= hour*60 < end_minute (a row that starts
\* at hour*60 occupies, a row that ends at hour*60 does not); occupied keeps
\* the order of df_valid.
C4_OccupiedHalfOpen ==
    pc = "rendered" =>
        LET minute == selected_hr * 60
            Occ(r) == /\ selected_wd \in Range(r.Day_List)
                      /\ r.Start_Min[1] <= minute
                      /\ minute < r.End_Min[1]
        IN  /\ occupied = SelectSeq(df_valid, Occ)
            /\ \A r \in Range(df_valid) :
                  selected_wd \in Range(r.Day_List) =>
                      /\ (r.Start_Min[1] = minute) => (r \in Range(occupied))
                      /\ (r.End_Min[1] = minute) => (r \notin Range(occupied))

\* on the selected weekday one row starts and another ends at the selected
\* hour
C4_Witness ==
    /\ pc = "rendered"
    /\ \E r \in Range(occupied) : r.Start_Min[1] = selected_hr * 60
    /\ \E r \in Range(df_valid) :
          /\ selected_wd \in Range(r.Day_List)
          /\ r.End_Min[1] = selected_hr * 60
          /\ r \notin Range(occupied)

\* C5: available is the set of distinct Hall labels of df_valid minus the
\* Hall labels of the occupying rows: the two are disjoint, together they are
\* all Hall labels of df_valid, and available lists no label twice.
C5_AvailableIsComplement ==
    pc = "rendered" =>
        LET all_halls      == {r.Hall : r \in Range(df_valid)}
            occupied_halls == {r.Hall : r \in Range(occupied)}
        IN  /\ Range(available) = all_halls \ occupied_halls
            /\ Range(available) \cap occupied_halls = {}
            /\ Range(available) \cup occupied_halls = all_halls
            /\ Cardinality(Range(available)) = Len(available)

\* one hall is occupied while another is free
C5_Witness ==
    /\ pc = "rendered"
    /\ available # <<>>
    /\ occupied # <<>>

\* C7: every row of df_errors has null start_minute and end_minute and null
\* derived fields duration_minutes and start_hour, whatever its rejection
\* reason.
C7_RejectedRowsCarryNoTimes ==
    pc = "rendered" =>
        \A r \in Range(df_errors) :
            /\ r.Start_Min = None /\ r.End_Min = None
            /\ r.Duration = None /\ r.Start_Hour = None

\* C8: a row whose input Hall is missing carries the label "UNKNOWN".
C8_MissingHallIsUnknown ==
    pc = "rendered" =>
        \A r \in Range(df_valid) \cup Range(df_errors) :
            (raw_df[1].rows[r.index].Hall = NaN) => (r.Hall = UNKNOWN)

===========================================================================
